---------------------------- MODULE Spec2Model ----------------------------
(***************************************************************************)
(* Hisaab Kitaab pages (Saudi.tsx, Special) and the Urdu font loader       *)
(* (pdfFonts): the page state held by React hooks, the date filter, the    *)
(* PDF export handlers and the module-level font cache.                    *)
(*                                                                         *)
(* Conventions                                                             *)
(*  - A date is an ISO calendar date 'YYYY-MM-DD'; the code compares dates *)
(*    as strings, which on that format is the order of the days, so a date *)
(*    is the index of its day, 1..MaxDate.  The empty string '' of an      *)
(*    unset bound is NoDate (JavaScript falsy).                            *)
(*  - An optional field (balance, riyalAmount) is <<>> when undefined and  *)
(*    <<v>> when the store supplied v.                                     *)
(*  - Amounts are integers; the rates of the entry sets divide the PKR     *)
(*    amounts, so pkrAmount / riyalRate is exact.                          *)
(*  - One page is mounted during a behaviour (page); the font cache is     *)
(*    module state of pdfFonts.                                            *)
(***************************************************************************)
EXTENDS Integers, Sequences, FiniteSets, TLC

\* ------------------------------------------------------------ bounds
MaxEntries == 2
MaxDate == 2
MaxRuns == 2
MaxRows == 2
MaxDay == 2
MaxMutations == 2
MaxLen == 2

NoDate == 0
Dates == 1..MaxDate
Bounds == {NoDate} \cup Dates
Pages == {"Saudi", "Special"}

\* The two notices of handleDownloadPDF.
NoDataNotice == "No data to export"
FailedNotice == "Failed to generate PDF. Please check the console for details."
FontName == "NotoSansArabic"

VARIABLES
  page,             \* which page component is mounted
  store,            \* contents of the external store behind saudiAPI / specialAPI
  entries,          \* useState entries
  filteredEntries,  \* useState filteredEntries
  isLoading,        \* useState isLoading
  dateFilter,       \* useState dateFilter: [fromDate, toDate]
  getAllPending,    \* getAll requests of fetchEntries awaiting their response
  lastFetch,        \* history: the list the last completed fetchEntries stored
  fontCache,        \* pdfFonts fontCache: [loaded, promise]; promise 0 is undefined
  loaders,          \* the async bodies started by loadUrduFont, by promise id
  runs,             \* Saudi handleDownloadPDF calls suspended at await loadUrduFont
  last,             \* history: the operation that ran last and what it showed / produced
  today,            \* the UTC calendar day new Date() reads, as a day index
  isSaving,         \* useState isSaving
  selectedEntry,    \* useState selectedEntry: <<>> is null
  mutations,        \* create / update / delete requests awaiting their response
  responses,        \* lists the store has read for getAll requests still awaiting delivery
  appliedFilter     \* history: <<bounds>> applied by handleFilter and unchanged since, else <<>>

vars == <<page, store, entries, filteredEntries, isLoading, dateFilter,
          getAllPending, lastFetch, fontCache, loaders, runs, last, today,
          isSaving, selectedEntry, mutations, responses, appliedFilter>>

mutationVars == <<isSaving, selectedEntry, mutations>>

\* No form was read by the operation.
NoForm == [none |-> TRUE]

\* The body of a request without numeric fields.
NoPayload == [none |-> TRUE]

\* A request slot with no request in flight.
IdleMutation == [pc |-> "idle", op |-> "none", id |-> 0, date |-> NoDate, payload |-> NoPayload]

\* ------------------------------------------------------------ entries
\* SaudiEntry / SpecialEntry as the pages read them.
SaudiEntry(i, d, pkr, rate, sub, ra, bal) ==
  [id |-> i, date |-> d, pkrAmount |-> pkr, riyalRate |-> rate,
   submittedSar |-> sub, riyalAmount |-> ra, balance |-> bal]

SpecialEntry(i, d, nr, sr, bal) ==
  [id |-> i, date |-> d, nameRupees |-> nr, submittedRupees |-> sr, balance |-> bal]

\* Entry lists of the page-level specification: every list of at most
\* MaxEntries entries over the dates, in any order of dates.
PageEntry(pg, i, d) ==
  IF pg = "Saudi" THEN SaudiEntry(i, d, 6, 2, 1, <<>>, <<>>)
                  ELSE SpecialEntry(i, d, 5, 2, <<>>)

PageStores(pg) ==
  UNION {{[i \in 1..n |-> PageEntry(pg, i, ds[i])] : ds \in [1..n -> Dates]} : n \in 0..MaxEntries}

\* Entry lists of the report specification: at most MaxRows entries whose
\* amounts and stored optional fields vary.
ReportEntries(pg) ==
  IF pg = "Saudi"
    THEN {SaudiEntry(0, 1, pkr, rate, 1, ra, bal) :
            pkr \in {0, 6}, rate \in {0, 2}, ra \in {<<>>, <<4>>}, bal \in {<<>>, <<1>>}}
    ELSE {SpecialEntry(0, 1, nr, sr, bal) :
            nr \in {0, 5}, sr \in {0, 2}, bal \in {<<>>, <<1>>, <<3>>}}

ReportStores(pg) ==
  UNION {[1..n -> ReportEntries(pg)] : n \in 1..MaxRows}

\* ------------------------------------------------------------ date filter
\* The callback with the comparisons made exclusive: an entry dated on a bound
\* is dropped.
KeepEntry_exclusive(entry, df) ==
  IF df.fromDate # NoDate /\ entry.date <= df.fromDate THEN FALSE
  ELSE IF df.toDate # NoDate /\ entry.date >= df.toDate THEN FALSE
  ELSE TRUE

\* The callback of entries.filter in handleFilter.
KeepEntry(entry, df) ==
  IF df.fromDate # NoDate /\ entry.date < df.fromDate THEN FALSE
  ELSE IF df.toDate # NoDate /\ entry.date > df.toDate THEN FALSE
  ELSE TRUE

\* What handleFilter stores in filteredEntries.
FilterResult(es, df) ==
  IF df.fromDate = NoDate /\ df.toDate = NoDate
    THEN es
    ELSE SelectSeq(es, LAMBDA e : KeepEntry(e, df))

\* handleClearFilter resetting the bounds but not the list.
ClearResult_keepsList(es) ==
  [dateFilter |-> [fromDate |-> NoDate, toDate |-> NoDate],
   filteredEntries |-> filteredEntries]

\* What handleClearFilter stores: [dateFilter, filteredEntries].
ClearResult(es) ==
  [dateFilter |-> [fromDate |-> NoDate, toDate |-> NoDate], filteredEntries |-> es]

\* const dataToExport = filteredEntries.length > 0 ? filteredEntries : entries
\* (the same expression feeds the summary panel and the Table component).
DataToExport(fe, es) == IF Len(fe) > 0 THEN fe ELSE es

\* The export without its empty-list check.
NothingToExport_unchecked(data) == FALSE

\* dataToExport.length === 0: the export stops with the 'no data' notice.
NothingToExport(data) == Len(data) = 0

\* The label of the summary panel: '(Filtered)' or '(All Entries)'.
FilterShown(df) == df.fromDate # NoDate \/ df.toDate # NoDate

\* ------------------------------------------------------------ report
\* formatNumber of @/data/dummyData on an integer amount: the numeral of the
\* amount (group separators only), represented by the amount.
formatNumber(n) == n

\* x || 0 on a number.
OrZero(x) == IF x = 0 THEN 0 ELSE x

\* Array.prototype.reduce((sum, x) => sum + x, 0) over the values f(entry),
\* given as the list of those values.
RECURSIVE SumOver(_)
SumOver(values) ==
  IF values = <<>> THEN 0 ELSE Head(values) + SumOver(Tail(values))

\* riyalAmount of a Saudi entry: stored, else pkrAmount / riyalRate, else 0.
SaudiRiyalAmount(entry) ==
  IF entry.riyalAmount # <<>> THEN entry.riyalAmount[1]
  ELSE IF entry.riyalRate > 0 THEN entry.pkrAmount \div entry.riyalRate ELSE 0

\* The Saudi row balance recomputed from the amounts, any stored balance ignored.
SaudiBalance_recomputes(entry) == SaudiRiyalAmount(entry) - entry.submittedSar

\* balance of a Saudi entry in a PDF row: stored, else riyalAmount - submittedSar.
SaudiBalance(entry) ==
  IF entry.balance # <<>> THEN entry.balance[1]
  ELSE SaudiRiyalAmount(entry) - entry.submittedSar

\* The Special row balance recomputed from the amounts, any stored balance ignored.
SpecialBalance_recomputes(entry) == entry.nameRupees - entry.submittedRupees

\* balance of a Special entry: stored, else nameRupees - submittedRupees.
SpecialBalance(entry) ==
  IF entry.balance # <<>> THEN entry.balance[1]
  ELSE entry.nameRupees - entry.submittedRupees

\* render of the on-screen riyalAmount column of the Saudi table.
SaudiColumnRiyal(row) ==
  formatNumber(IF row.riyalAmount # <<>> THEN row.riyalAmount[1]
               ELSE IF row.riyalRate > 0 THEN row.pkrAmount \div row.riyalRate ELSE 0)

\* render of the on-screen balance column of the Saudi table: the amount
\* handed to BalanceDisplay.
SaudiColumnBalance(row) ==
  IF row.balance # <<>> THEN row.balance[1]
  ELSE LET riyalAmount == IF row.riyalAmount # <<>> THEN row.riyalAmount[1]
                          ELSE IF row.riyalRate > 0 THEN row.pkrAmount \div row.riyalRate
                          ELSE 0
       IN riyalAmount - row.submittedSar

\* calculateSpecialBalance of @/data/dummyData: nameRupees - submittedRupees.
calculateSpecialBalance(nameRupees, submittedRupees) == nameRupees - submittedRupees

\* render of the on-screen balance column of the Special table.
SpecialColumnBalance(row) ==
  IF row.balance # <<>> THEN row.balance[1]
  ELSE calculateSpecialBalance(row.nameRupees, row.submittedRupees)

\* One body row of the Saudi report (the numeric columns and the date).
SaudiRow(entry) ==
  [date |-> entry.date,
   pkr |-> formatNumber(entry.pkrAmount),
   riyal |-> formatNumber(SaudiRiyalAmount(entry)),
   submitted |-> formatNumber(entry.submittedSar),
   balance |-> formatNumber(SaudiBalance(entry))]

\* The TOTALS row of the Saudi report.
SaudiTotals(data) ==
  LET totalPKR == SumOver([i \in DOMAIN data |-> OrZero(data[i].pkrAmount)])
      totalRiyal == SumOver([i \in DOMAIN data |-> SaudiRiyalAmount(data[i])])
      totalSubmittedSAR == SumOver([i \in DOMAIN data |-> OrZero(data[i].submittedSar)])
  IN [pkr |-> formatNumber(totalPKR),
      riyal |-> formatNumber(totalRiyal),
      submitted |-> formatNumber(totalSubmittedSAR),
      balance |-> formatNumber(totalRiyal - totalSubmittedSAR)]

\* One body row of the Special report.
SpecialRow(entry) ==
  [date |-> entry.date,
   nameRupees |-> formatNumber(entry.nameRupees),
   submittedRupees |-> formatNumber(entry.submittedRupees),
   balance |-> formatNumber(SpecialBalance(entry))]

\* The TOTALS row of the Special report.
SpecialTotals(data) ==
  LET totalNameRupees == SumOver([i \in DOMAIN data |-> OrZero(data[i].nameRupees)])
      totalSubmittedRupees == SumOver([i \in DOMAIN data |-> OrZero(data[i].submittedRupees)])
      totalBalance == SumOver([i \in DOMAIN data |-> SpecialBalance(data[i])])
  IN [nameRupees |-> formatNumber(totalNameRupees),
      submittedRupees |-> formatNumber(totalSubmittedRupees),
      balance |-> formatNumber(totalBalance)]

\* The entry count with the TOTALS row counted as an entry.
TotalEntries_countsTotalsRow(data) == Len(data) + 1

\* The 'Total Entries: n' line of the title block.
TotalEntries(data) == Len(data)

\* tableData before the TOTALS row is pushed, and the TOTALS row.
ReportRows(pg, data) ==
  [i \in 1..Len(data) |-> IF pg = "Saudi" THEN SaudiRow(data[i]) ELSE SpecialRow(data[i])]

ReportTotals(pg, data) ==
  IF pg = "Saudi" THEN SaudiTotals(data) ELSE SpecialTotals(data)

\* ------------------------------------------------------------ history record
\* What the operation that ran last did: the notice it showed, whether it
\* constructed a jsPDF document, whether it suspended at the font load,
\* whether it saved a file, and for an export the list and filter bounds it
\* used, the state of its document's font list and of the promise it awaited.
Did(op) ==
  [op |-> op, alert |-> "none", doc |-> FALSE, suspended |-> FALSE, saved |-> FALSE,
   threw |-> FALSE, data |-> <<>>, fromDate |-> NoDate, toDate |-> NoDate,
   fontReady |-> FALSE, awaited |-> "none",
   fileName |-> "", dateRange |-> "", day |-> 0,
   fontThrew |-> FALSE, escaped |-> FALSE,
   sent |-> FALSE, confirmed |-> FALSE, mop |-> "none", outcome |-> "none",
   text |-> <<>>, result |-> FALSE, cacheLoaded |-> FALSE,
   typed |-> NoForm, form |-> NoForm, errors |-> {}]

\* ------------------------------------------------------------ font loader
MaxLoads == 2
PromiseIds == 1..MaxLoads

\* An async body of loadUrduFont: where it is (unborn, primary, alt, or how
\* its promise settled), the document it was given, and as history the
\* outcome of each fetch, the requests it sent and whether it embedded the font.
UnbornLoader == [pc |-> "unborn", doc |-> 0, primary |-> "none", alt |-> "none",
                 primaryRequests |-> 0, altRequests |-> 0, embedded |-> FALSE]

IdleRun == [pc |-> "idle", data |-> <<>>, fromDate |-> NoDate, toDate |-> NoDate,
            awaits |-> 0, docFont |-> FALSE]

\* The cache test honouring the promise only once the font is loaded.
HasCachedPromise_whenLoaded == fontCache.promise # 0 /\ fontCache.loaded

\* if (fontCache.promise): a promise is cached.
HasCachedPromise == fontCache.promise # 0

\* The promise a loadUrduFont call returns: the cached one, else (loaded)
\* Promise.resolve(), written 0, else the promise of a new async body.
FreshPromise == CHOOSE id \in PromiseIds : loaders[id].pc = "unborn" /\
                  \A j \in PromiseIds : loaders[j].pc = "unborn" => id <= j

StartsLoad == ~HasCachedPromise /\ ~fontCache.loaded

ReturnedPromise ==
  IF HasCachedPromise THEN fontCache.promise
  ELSE IF fontCache.loaded THEN 0
  ELSE FreshPromise

\* State of a promise: Promise.resolve() is resolved; the promise of an async
\* body is pending until the body ends.
PromiseState(id) ==
  IF id = 0 THEN "resolved"
  ELSE IF loaders[id].pc \in {"resolved", "rejected"} THEN loaders[id].pc
  ELSE "pending"

PromiseSettled(id) == PromiseState(id) # "pending"

\* The body without its outer catch: a failed load rejects the promise.
BodyEndsAs_rethrows(success) == IF success THEN "resolved" ELSE "rejected"

\* How the async body ends: the try / catch around the whole body absorbs
\* every throw, so the promise resolves whether or not the font was embedded.
BodyEndsAs(success) == "resolved"

\* The body dropping the cached promise after a failed load.
PromiseAfterBody_clears(id, success) == IF success THEN fontCache.promise ELSE 0

\* What the body leaves in fontCache.promise when it ends: the assignment of
\* loadUrduFont is the only write, so the settled promise stays cached.
PromiseAfterBody(id, success) == fontCache.promise

\* The font fetch got its ArrayBuffer (fontData # null) or not, and the
\* embedding (btoa, addFileToVFS, addFont) throws or not: the body ends.
EndBody(id, fontData, embedThrows, how) ==
  LET success == fontData /\ ~embedThrows
      d == loaders[id].doc
  IN /\ loaders' = [loaders EXCEPT ![id] =
                       [how EXCEPT !.pc = BodyEndsAs(success), !.embedded = success]]
     /\ fontCache' = [loaded |-> success, promise |-> PromiseAfterBody(id, success)]
     /\ runs' = IF success /\ d # 0
                  THEN [runs EXCEPT ![d].docFont = TRUE]
                  ELSE runs

\* Whether a failed primary fetch leads to the alternate URL: only the catch
\* of the inner try holds the second fetch, and a non-success response does
\* not throw.
TriesAlternate(outcome) == outcome = "reject"

FetchOutcomes == {"ok", "notok", "reject"}

\* The response of the primary URL arrives: "ok" (response.ok and the body
\* is read), "notok" (a response that is not ok), "reject" (fetch or
\* arrayBuffer rejects).
fontPrimaryResponse(id, outcome, embedThrows) ==
  /\ loaders[id].pc = "primary"
  /\ LET how == [loaders[id] EXCEPT !.primary = outcome]
     IN IF TriesAlternate(outcome)
          THEN /\ loaders' = [loaders EXCEPT ![id] =
                                [how EXCEPT !.pc = "alt", !.altRequests = @ + 1]]
               /\ UNCHANGED <<fontCache, runs>>
          ELSE EndBody(id, outcome = "ok", embedThrows, how)
  /\ last' = Did("fontPrimaryResponse")
  /\ UNCHANGED <<today, responses, appliedFilter, mutationVars, page, store, entries, filteredEntries, isLoading, dateFilter,
                 getAllPending, lastFetch>>

\* The response of the alternate URL arrives.
fontAltResponse(id, outcome, embedThrows) ==
  /\ loaders[id].pc = "alt"
  /\ EndBody(id, outcome = "ok", embedThrows, [loaders[id] EXCEPT !.alt = outcome])
  /\ last' = Did("fontAltResponse")
  /\ UNCHANGED <<today, responses, appliedFilter, mutationVars, page, store, entries, filteredEntries, isLoading, dateFilter,
                 getAllPending, lastFetch>>

\* ------------------------------------------------------------ page operations
fontVars == <<fontCache, loaders, runs>>

\* fetchEntries after its await: getAll answered with the store's contents.
fetchEntriesResolve ==
  /\ getAllPending > Len(responses)
  /\ getAllPending' = getAllPending - 1
  /\ entries' = store
  /\ filteredEntries' = store
  /\ lastFetch' = store
  /\ isLoading' = FALSE
  /\ last' = Did("fetchEntries")
  /\ UNCHANGED <<today, responses, appliedFilter, mutationVars, page, store, dateFilter, fontVars>>

\* The catch of fetchEntries leaving the list as it was.
FetchFallback_keeps(es) == es

\* The catch of fetchEntries: setEntries([]), setFilteredEntries([]).
FetchFallback(es) == <<>>

\* fetchEntries after its await: getAll rejected.
fetchEntriesReject ==
  /\ getAllPending > Len(responses)
  /\ getAllPending' = getAllPending - 1
  /\ entries' = FetchFallback(entries)
  /\ filteredEntries' = FetchFallback(filteredEntries)
  /\ lastFetch' = <<>>
  /\ isLoading' = FALSE
  /\ last' = Did("fetchEntriesFailed")
  /\ UNCHANGED <<today, responses, appliedFilter, mutationVars, page, store, dateFilter, fontVars>>

\* onChange of the From Date / To Date inputs.
setFromDate(d) ==
  /\ d # dateFilter.fromDate
  /\ dateFilter' = [dateFilter EXCEPT !.fromDate = d]
  /\ appliedFilter' = <<>>
  /\ last' = Did("setDateFilter")
  /\ UNCHANGED <<today, responses, mutationVars, page, store, entries, filteredEntries, isLoading, getAllPending,
                 lastFetch, fontVars>>

setToDate(d) ==
  /\ d # dateFilter.toDate
  /\ dateFilter' = [dateFilter EXCEPT !.toDate = d]
  /\ appliedFilter' = <<>>
  /\ last' = Did("setDateFilter")
  /\ UNCHANGED <<today, responses, mutationVars, page, store, entries, filteredEntries, isLoading, getAllPending,
                 lastFetch, fontVars>>

handleFilter ==
  /\ filteredEntries' = FilterResult(entries, dateFilter)
  /\ appliedFilter' = IF FilterShown(dateFilter) THEN <<dateFilter>> ELSE <<>>
  /\ last' = Did("handleFilter")
  /\ UNCHANGED <<today, responses, mutationVars, page, store, entries, isLoading, dateFilter, getAllPending,
                 lastFetch, fontVars>>

handleClearFilter ==
  /\ dateFilter' = ClearResult(entries).dateFilter
  /\ filteredEntries' = ClearResult(entries).filteredEntries
  /\ appliedFilter' = <<>>
  /\ last' = Did("handleClearFilter")
  /\ UNCHANGED <<today, responses, mutationVars, page, store, entries, isLoading, getAllPending, lastFetch, fontVars>>

\* ------------------------------------------------------------ title and file name
\* The text of a date: the value of a date input and the date part of
\* toISOString, 'YYYY-MM-DD', for the day with index d.
DateString(d) == (IF d < 10 THEN "2024-01-0" ELSE "2024-01-") \o ToString(d)

\* A bound written into the file name with '' in place of 'all'.
OrAll_empty(d) == IF d = NoDate THEN "" ELSE DateString(d)

\* dateFilter.fromDate || 'all'
OrAll(d) == IF d = NoDate THEN "all" ELSE DateString(d)

\* The prefix of the file name on each page.
FilePrefix(pg) == IF pg = "Saudi" THEN "Saudi_Hisaab_Kitaab_" ELSE "Special_Hisaab_Kitaab_"

\* fileName of handleDownloadPDF on day `day`.
FileName(pg, df, day) ==
  FilePrefix(pg) \o OrAll(df.fromDate) \o "_" \o OrAll(df.toDate) \o "_" \o
  DateString(day) \o ".pdf"

\* dateRange of the title block.
TitleRange(df) ==
  IF df.fromDate # NoDate /\ df.toDate # NoDate
    THEN DateString(df.fromDate) \o " to " \o DateString(df.toDate)
    ELSE "All Entries"

\* ------------------------------------------------------------ export
\* The handler with the font load inside the one try: a throw of the font
\* step ends the export with the notice.
ExportOutcome_fontFailureAborts(fontThrew, threw) ==
  [saved |-> ~(fontThrew \/ threw),
   alert |-> IF fontThrew \/ threw THEN FailedNotice ELSE "none",
   escaped |-> FALSE]

\* The try / catch structure of handleDownloadPDF: a throw of the font step
\* (the await or the font-list check) is caught by the inner catch, which only
\* logs, and the export goes on; a throw of any other step is caught by the
\* outer catch, which logs and shows the notice. Nothing leaves the handler.
ExportOutcome(fontThrew, threw) ==
  [saved |-> ~threw,
   alert |-> IF threw THEN FailedNotice ELSE "none",
   escaped |-> FALSE]

\* The rest of an export once the document exists: totals, title block,
\* rows, autoTable, footer, doc.save; a throw anywhere lands in the catch.
Finish(op, data, df, fontThrew, threw, fontReady, awaited) ==
  LET out == ExportOutcome(fontThrew, threw)
  IN [Did(op) EXCEPT !.doc = TRUE, !.data = data,
                     !.fromDate = df.fromDate, !.toDate = df.toDate,
                     !.fontThrew = fontThrew, !.threw = threw,
                     !.saved = out.saved, !.alert = out.alert, !.escaped = out.escaped,
                     !.fontReady = fontReady, !.awaited = awaited,
                     !.dateRange = IF out.saved THEN TitleRange(df) ELSE "",
                     !.fileName = IF out.saved THEN FileName(page, df, today) ELSE "",
                     !.day = IF out.saved THEN today ELSE 0]

\* handleDownloadPDF of the Special page: synchronous.
handleDownloadPDF_Special(threw) ==
  /\ page = "Special"
  /\ LET data == DataToExport(filteredEntries, entries)
     IN last' = IF NothingToExport(data)
                  THEN [Did("handleDownloadPDF") EXCEPT !.alert = NoDataNotice]
                  ELSE Finish("handleDownloadPDF", data, dateFilter, FALSE, threw, FALSE, "none")
  /\ UNCHANGED <<today, responses, appliedFilter, mutationVars, page, store, entries, filteredEntries, isLoading, dateFilter,
                 getAllPending, lastFetch, fontVars>>

\* The exports in flight are kept in slots; a new export takes the lowest
\* free slot of `slots`, which bounds how many are suspended at a time.
FreeRun(slots) == CHOOSE r \in slots : runs[r].pc = "idle" /\
                    \A q \in slots : runs[q].pc = "idle" => r <= q

\* handleDownloadPDF of the Saudi page up to await loadUrduFont(doc).
handleDownloadPDF_Saudi(threw, slots) ==
  /\ page = "Saudi"
  /\ LET data == DataToExport(filteredEntries, entries)
     IN IF NothingToExport(data)
          THEN /\ last' = [Did("handleDownloadPDF") EXCEPT !.alert = NoDataNotice]
               /\ UNCHANGED fontVars
          ELSE IF threw
            \* new jsPDF throws: the catch shows the notice
            THEN /\ last' = [Did("handleDownloadPDF") EXCEPT
                               !.threw = TRUE,
                               !.alert = ExportOutcome(FALSE, TRUE).alert,
                               !.escaped = ExportOutcome(FALSE, TRUE).escaped]
                 /\ UNCHANGED fontVars
            ELSE /\ \E r \in slots : runs[r].pc = "idle"
                 /\ StartsLoad => \E id \in PromiseIds : loaders[id].pc = "unborn"
                 /\ LET r == FreeRun(slots)
                        p == ReturnedPromise
                    IN /\ runs' = [runs EXCEPT ![r] =
                                     [pc |-> "awaitFont", data |-> data,
                                      fromDate |-> dateFilter.fromDate,
                                      toDate |-> dateFilter.toDate,
                                      awaits |-> p, docFont |-> FALSE]]
                       /\ IF StartsLoad
                            THEN /\ loaders' = [loaders EXCEPT ![p] =
                                       [UnbornLoader EXCEPT !.pc = "primary", !.doc = r,
                                                            !.primaryRequests = 1]]
                                 /\ fontCache' = [fontCache EXCEPT !.promise = p]
                            ELSE UNCHANGED <<loaders, fontCache>>
                       /\ last' = [Did("handleDownloadPDF") EXCEPT
                                     !.doc = TRUE, !.suspended = TRUE]
  /\ UNCHANGED <<today, responses, appliedFilter, mutationVars, page, store, entries, filteredEntries, isLoading, dateFilter,
                 getAllPending, lastFetch>>

\* The handler calling loadUrduFont without awaiting it.
AwaitDone_notAwaited(r) == TRUE

\* await loadUrduFont(doc) lets the handler go on once the promise settled.
AwaitDone(r) == PromiseSettled(runs[r].awaits)

\* handleDownloadPDF of the Saudi page after the await: a rejection of the
\* awaited promise or a throw of the font-list check (fontCheckThrows) is
\* caught by the inner try, and the handler goes on.
handleDownloadPDF_resume(r, fontCheckThrows, threw) ==
  /\ runs[r].pc = "awaitFont"
  /\ AwaitDone(r)
  /\ last' = [Finish("handleDownloadPDF_resume", runs[r].data,
                     [fromDate |-> runs[r].fromDate, toDate |-> runs[r].toDate],
                     fontCheckThrows \/ PromiseState(runs[r].awaits) = "rejected",
                     threw, runs[r].docFont, PromiseState(runs[r].awaits))
              EXCEPT !.cacheLoaded = fontCache.loaded]
  /\ runs' = [runs EXCEPT ![r] = IdleRun]
  /\ UNCHANGED <<today, responses, appliedFilter, mutationVars, page, store, entries, filteredEntries, isLoading, dateFilter,
                 getAllPending, lastFetch, fontCache, loaders>>

\* Midnight UTC passes.
tick ==
  /\ today < MaxDay
  /\ today' = today + 1
  /\ UNCHANGED <<responses, appliedFilter, mutationVars, page, store, entries, filteredEntries,
                 isLoading, dateFilter,
                 getAllPending, lastFetch, fontVars, last>>

\* ------------------------------------------------------------ specification
\* The page after mount: the hooks' initial values and the getAll request of
\* the mount effect in flight; the font cache as the module creates it.
InitWith(pg, st) ==
  /\ page = pg
  /\ store = st
  /\ entries = <<>>
  /\ filteredEntries = <<>>
  /\ isLoading = TRUE
  /\ dateFilter = [fromDate |-> NoDate, toDate |-> NoDate]
  /\ getAllPending = 1
  /\ lastFetch = <<>>
  /\ fontCache = [loaded |-> FALSE, promise |-> 0]
  /\ loaders = [id \in PromiseIds |-> UnbornLoader]
  /\ runs = [r \in 1..MaxRuns |-> IdleRun]
  /\ last = Did("mount")
  /\ today = 1
  /\ isSaving = FALSE
  /\ selectedEntry = <<>>
  /\ mutations = [m \in 1..MaxMutations |-> IdleMutation]
  /\ responses = <<>>
  /\ appliedFilter = <<>>

Init == \E pg \in Pages : \E st \in PageStores(pg) : InitWith(pg, st)

FontNext ==
  \/ \E id \in PromiseIds, o \in FetchOutcomes, t \in BOOLEAN : fontPrimaryResponse(id, o, t)
  \/ \E id \in PromiseIds, o \in FetchOutcomes, t \in BOOLEAN : fontAltResponse(id, o, t)

SaudiExportNext(slots) ==
  \/ \E t \in BOOLEAN : handleDownloadPDF_Saudi(t, slots)
  \/ \E r \in slots, f \in BOOLEAN, t \in BOOLEAN : handleDownloadPDF_resume(r, f, t)

FilterNext ==
  \/ \E d \in Bounds : setFromDate(d)
  \/ \E d \in Bounds : setToDate(d)
  \/ handleFilter
  \/ handleClearFilter

FetchNext ==
  \/ fetchEntriesResolve
  \/ fetchEntriesReject

\* The page: fetch, date filter and export on either page, with one Saudi
\* export suspended at a time.
Next ==
  \/ FetchNext
  \/ FilterNext
  \/ \E t \in BOOLEAN : handleDownloadPDF_Special(t)
  \/ SaudiExportNext({1})
  \/ FontNext

Spec == Init /\ [][Next]_vars

\* The date filter alone: fetchEntries and the filter handlers are the only
\* writers of entries, filteredEntries and dateFilter, and they read nothing
\* else, so the exports and the font loader are left out.
FilterSpecNext ==
  \/ FetchNext
  \/ FilterNext

SpecFilter == Init /\ [][FilterSpecNext]_vars

\* The exports and the font loader: up to MaxRuns Saudi exports suspended at
\* a time, on either page, before and after the list has arrived; the date
\* filter, which the loader never reads, is left alone.
ExportSpecNext ==
  \/ FetchNext
  \/ \E t \in BOOLEAN : handleDownloadPDF_Special(t)
  \/ SaudiExportNext(1..MaxRuns)
  \/ FontNext

SpecExport == Init /\ [][ExportSpecNext]_vars

\* The report builder on lists whose amounts and stored fields vary: the
\* page right after a fetch that brought such a list.
ReportInit ==
  \E pg \in Pages : \E st \in ReportStores(pg) :
    /\ page = pg
    /\ store = st
    /\ entries = st
    /\ filteredEntries = st
    /\ isLoading = FALSE
    /\ dateFilter = [fromDate |-> NoDate, toDate |-> NoDate]
    /\ getAllPending = 0
    /\ lastFetch = st
    /\ fontCache = [loaded |-> FALSE, promise |-> 0]
    /\ loaders = [id \in PromiseIds |-> UnbornLoader]
    /\ runs = [r \in 1..MaxRuns |-> IdleRun]
    /\ last = Did("fetchEntries")
    /\ today = 1
    /\ isSaving = FALSE
    /\ selectedEntry = <<>>
    /\ mutations = [m \in 1..MaxMutations |-> IdleMutation]
    /\ responses = <<>>
    /\ appliedFilter = <<>>

ReportNext ==
  \/ \E t \in BOOLEAN : handleDownloadPDF_Special(t)
  \/ SaudiExportNext({1})
  \/ FontNext

SpecReport == ReportInit /\ [][ReportNext]_vars

\* ------------------------------------------------------------ properties
Suspended(r) == runs[r].pc = "awaitFont"

PrimaryRequestsSent ==
  LET RECURSIVE Count(_)
      Count(n) == IF n = 0 THEN 0 ELSE loaders[n].primaryRequests + Count(n - 1)
  IN Count(MaxLoads)

AlternateRequestsSent ==
  LET RECURSIVE Count(_)
      Count(n) == IF n = 0 THEN 0 ELSE loaders[n].altRequests + Count(n - 1)
  IN Count(MaxLoads)

BodyEnded(id) == loaders[id].pc \in {"resolved", "rejected"}

\* A load attempt has finished without embedding the font.
LoadFailed == \E id \in PromiseIds : BodyEnded(id) /\ ~loaders[id].embedded

\* C1: over every interleaving of loadUrduFont calls at most one request goes
\* to the primary URL and at most one to the alternate URL, and all the calls
\* suspended on a load await one and the same promise, the cached one.
C1_AtMostOneFetch ==
  /\ PrimaryRequestsSent <= 1
  /\ AlternateRequestsSent <= 1
  /\ \A r \in 1..MaxRuns : Suspended(r) =>
        /\ runs[r].awaits = fontCache.promise
        /\ runs[r].awaits # 0

\* Two exports are suspended on the load while the primary fetch is pending.
C1_Witness ==
  /\ Suspended(1) /\ Suspended(2)
  /\ fontCache.promise # 0
  /\ PromiseState(fontCache.promise) = "pending"

\* C2: a load whose primary fetch failed, by rejection or by a non-success
\* response, has sent exactly one request to the alternate URL by the time
\* its outcome is decided.
C2_AlternateAfterAnyFailure ==
  \A id \in PromiseIds :
    (BodyEnded(id) /\ loaders[id].primary \in {"notok", "reject"})
      => loaders[id].altRequests = 1

\* The primary URL answered with a non-success response and the load ended.
C2_Witness ==
  \E id \in PromiseIds : BodyEnded(id) /\ loaders[id].primary = "notok"

\* C3: the promise of loadUrduFont never rejects, no step of the loader shows
\* a notice, and a Saudi export that resumes with the font not loaded has its
\* document, goes through the table build and saves its file without a
\* notice unless a later step of the export itself throws.
C3_FontFailureSwallowed ==
  /\ \A id \in PromiseIds : loaders[id].pc # "rejected"
  /\ last.op \in {"fontPrimaryResponse", "fontAltResponse"} => last.alert = "none"
  /\ (last.op = "handleDownloadPDF_resume" /\ ~last.fontReady) =>
        /\ last.awaited = "resolved"
        /\ last.doc
        /\ ~last.threw => (last.saved /\ last.alert = "none")
        /\ last.alert \in {"none", FailedNotice}

\* An export saved its file after both font fetches were rejected.
C3_Witness ==
  /\ last.op = "handleDownloadPDF_resume"
  /\ last.saved
  /\ ~last.fontReady
  /\ ~fontCache.loaded
  /\ \E id \in PromiseIds : loaders[id].primary = "reject" /\ loaders[id].alt = "reject"

\* C4: once a load attempt has finished unsuccessfully, every later step
\* leaves the settled promise cached and loaded false, sends no request, and
\* a loadUrduFont call made from then on is given the cached promise.
C4_FailedLoadNeverRetried ==
  [][LoadFailed =>
       /\ fontCache.promise # 0
       /\ ~fontCache.loaded
       /\ fontCache' = fontCache
       /\ PrimaryRequestsSent' = PrimaryRequestsSent
       /\ AlternateRequestsSent' = AlternateRequestsSent
       /\ \A r \in 1..MaxRuns :
            (~Suspended(r) /\ Suspended(r)') => runs'[r].awaits = fontCache.promise]_vars

\* An export was started after the load had failed, and is suspended on the
\* cached promise.
C4_Witness ==
  /\ LoadFailed
  /\ last.op = "handleDownloadPDF"
  /\ last.suspended
  /\ \E r \in 1..MaxRuns : Suspended(r) /\ runs[r].awaits = fontCache.promise

\* C5: a Saudi export goes past its await, to the totals, the table and the
\* per-cell font decisions, only when the promise it awaits has settled.
C5_TableAfterFontSettled ==
  last.op = "handleDownloadPDF_resume" => last.awaited \in {"resolved", "rejected"}

\* One export built its table while another one is still suspended.
C5_Witness ==
  /\ last.op = "handleDownloadPDF_resume"
  /\ last.saved
  /\ \E r \in 1..MaxRuns : Suspended(r)

\* C6: handleDownloadPDF called with entries and filteredEntries both empty
\* shows the 'No data to export' notice, constructs no document, suspends on
\* no font load and saves nothing (Saudi and Special).
C6_EmptyExportOnlyNotice ==
  (last.op = "handleDownloadPDF" /\ Len(filteredEntries) = 0 /\ Len(entries) = 0) =>
     /\ last.alert = NoDataNotice
     /\ ~last.doc
     /\ ~last.suspended
     /\ ~last.saved
     /\ \A r \in 1..MaxRuns : ~Suspended(r) \/ Len(runs[r].data) > 0

\* The Saudi handler ran on an empty list after a failed fetch.
C6_Witness ==
  /\ page = "Saudi"
  /\ last.op = "handleDownloadPDF"
  /\ Len(entries) = 0
  /\ lastFetch = <<>>
  /\ getAllPending = 0

\* The positions of es whose date lies within the bounds of df, an unset
\* bound being unbounded, and the subsequence of es at those positions.
InRangePositions(es, df) ==
  {i \in DOMAIN es : /\ (df.fromDate = NoDate \/ df.fromDate <= es[i].date)
                     /\ (df.toDate = NoDate \/ es[i].date <= df.toDate)}

InRangeList(es, df) ==
  LET I == InRangePositions(es, df)
      Nth(k) == CHOOSE i \in I : Cardinality({j \in I : j < i}) = k - 1
  IN [k \in 1..Cardinality(I) |-> es[Nth(k)]]

\* C7: after handleFilter with at least one bound set, filteredEntries is
\* the list of the entries within the bounds, in the order of entries.
C7_FilterKeepsInRange ==
  (last.op = "handleFilter" /\ (dateFilter.fromDate # NoDate \/ dateFilter.toDate # NoDate))
     => filteredEntries = InRangeList(entries, dateFilter)

\* handleFilter ran with both bounds on the same day and kept one entry of two.
C7_Witness ==
  /\ last.op = "handleFilter"
  /\ dateFilter.fromDate # NoDate
  /\ dateFilter.fromDate = dateFilter.toDate
  /\ Len(entries) >= 2
  /\ Len(filteredEntries) = 1

\* C8: after handleClearFilter both bounds are empty and filteredEntries is
\* the entries list, which is the list of the last fetch.
C8_ClearRestoresAll ==
  last.op = "handleClearFilter" =>
     /\ dateFilter.fromDate = NoDate
     /\ dateFilter.toDate = NoDate
     /\ filteredEntries = entries
     /\ entries = lastFetch

\* handleClearFilter ran on a fetched list of two entries.
C8_Witness ==
  /\ last.op = "handleClearFilter"
  /\ getAllPending = 0
  /\ Len(entries) >= 2
  /\ entries = store

\* C9: right after handleFilter with a bound set, the list the totals, the
\* table and the export use is the list of the entries within the bounds,
\* also when no entry is within them.
C9_ShownSetIsFilteredSet ==
  (last.op = "handleFilter" /\ (dateFilter.fromDate # NoDate \/ dateFilter.toDate # NoDate))
     => DataToExport(filteredEntries, entries) = InRangeList(entries, dateFilter)

\* handleFilter ran with a bound set and no entry of a non-empty list matched.
C9_Witness ==
  /\ last.op = "handleFilter"
  /\ FilterShown(dateFilter)
  /\ Len(entries) > 0
  /\ InRangePositions(entries, dateFilter) = {}

\* The numeric columns in which the TOTALS row holds a number.
TotalsColumns(pg) ==
  IF pg = "Saudi" THEN {"pkr", "riyal", "submitted", "balance"}
                  ELSE {"nameRupees", "submittedRupees", "balance"}

RECURSIVE ColumnSum(_, _, _)
ColumnSum(rows, col, n) ==
  IF n = 0 THEN 0 ELSE rows[n][col] + ColumnSum(rows, col, n - 1)

\* C10: in a saved report every numeric column of the TOTALS row is the sum
\* of that column over the entry rows.
C10_TotalsAreColumnSums ==
  last.saved =>
    LET rows == ReportRows(page, last.data)
        totals == ReportTotals(page, last.data)
    IN \A col \in TotalsColumns(page) : totals[col] = ColumnSum(rows, col, Len(rows))

\* A Saudi report was saved whose list mixes an entry with a stored balance
\* and an entry without one.
C10_Witness ==
  /\ page = "Saudi"
  /\ last.saved
  /\ \E i, j \in DOMAIN last.data :
        last.data[i].balance # <<>> /\ last.data[j].balance = <<>>

\* What the table component shows: the list handed to Table.
ShownEntries == DataToExport(filteredEntries, entries)

\* C11: for every Saudi entry, in the PDF rows and in the on-screen columns,
\* riyalAmount is the stored one when present, else pkrAmount / riyalRate
\* when riyalRate > 0 and 0 otherwise, and balance is the stored one when
\* present, else that riyalAmount minus submittedSar.
C11_RiyalOf(e) ==
  CASE e.riyalAmount # <<>> -> e.riyalAmount[1]
    [] e.riyalAmount = <<>> /\ e.riyalRate > 0 -> e.pkrAmount \div e.riyalRate
    [] OTHER -> 0

C11_BalanceOf(e) ==
  CASE e.balance # <<>> -> e.balance[1]
    [] OTHER -> C11_RiyalOf(e) - e.submittedSar

C11_SaudiDerivedValues ==
  page = "Saudi" =>
    /\ \A i \in DOMAIN ShownEntries :
         /\ SaudiColumnRiyal(ShownEntries[i]) = C11_RiyalOf(ShownEntries[i])
         /\ SaudiColumnBalance(ShownEntries[i]) = C11_BalanceOf(ShownEntries[i])
    /\ last.saved =>
         \A i \in DOMAIN last.data :
           /\ ReportRows(page, last.data)[i].riyal = C11_RiyalOf(last.data[i])
           /\ ReportRows(page, last.data)[i].balance = C11_BalanceOf(last.data[i])

\* A saved Saudi report holds an entry without stored fields and with
\* riyalRate 0 (balance -submittedSar) next to one with a stored balance.
C11_Witness ==
  /\ page = "Saudi"
  /\ last.saved
  /\ \E i, j \in DOMAIN last.data :
       /\ last.data[i].balance = <<>> /\ last.data[i].riyalAmount = <<>>
       /\ last.data[i].riyalRate = 0
       /\ ReportRows(page, last.data)[i].balance = 0 - last.data[i].submittedSar
       /\ last.data[j].balance # <<>>

\* C12: for every Special entry, in the PDF rows and in the on-screen balance
\* column, balance is the stored one when present, else nameRupees minus
\* submittedRupees.
C12_BalanceOf(e) ==
  CASE e.balance # <<>> -> e.balance[1]
    [] OTHER -> e.nameRupees - e.submittedRupees

C12_SpecialDerivedBalance ==
  page = "Special" =>
    /\ \A i \in DOMAIN ShownEntries :
         SpecialColumnBalance(ShownEntries[i]) = C12_BalanceOf(ShownEntries[i])
    /\ last.saved =>
         \A i \in DOMAIN last.data :
           ReportRows(page, last.data)[i].balance = C12_BalanceOf(last.data[i])

\* A saved Special report holds an entry with a stored balance that differs
\* from nameRupees - submittedRupees and an entry without a stored balance.
C12_Witness ==
  /\ page = "Special"
  /\ last.saved
  /\ \E i, j \in DOMAIN last.data :
       /\ last.data[i].balance # <<>>
       /\ last.data[i].balance[1] # last.data[i].nameRupees - last.data[i].submittedRupees
       /\ last.data[j].balance = <<>>

\* tableData as handed to autoTable: the mapped entry rows, then the pushed
\* row that carries the literal 'TOTALS'.
TableData(pg, data) ==
  Append([i \in 1..Len(data) |-> [kind |-> "entry", cells |-> ReportRows(pg, data)[i]]],
         [kind |-> "TOTALS", cells |-> ReportTotals(pg, data)])

\* C16: the body of a saved report has one row per exported entry in the
\* list's order, then exactly one TOTALS row as the last row, and the title
\* block's 'Total Entries' equals the number of entry rows.
C16_RowsThenOneTotals ==
  last.saved =>
    LET body == TableData(page, last.data)
        entryRows == {i \in DOMAIN body : body[i].kind = "entry"}
        totalsRows == {i \in DOMAIN body : body[i].kind = "TOTALS"}
    IN /\ entryRows = 1..Len(last.data)
       /\ \A i \in entryRows :
            body[i].cells = IF page = "Saudi" THEN SaudiRow(last.data[i])
                            ELSE SpecialRow(last.data[i])
       /\ totalsRows = {Len(body)}
       /\ TotalEntries(last.data) = Cardinality(entryRows)

\* A saved report of two different entries: the order of the rows shows.
C16_Witness ==
  /\ last.saved
  /\ Len(last.data) = 2
  /\ last.data[1] # last.data[2]
  /\ TableData(page, last.data)[3].kind = "TOTALS"

\* ------------------------------------------------------------ naming
\* The loader after a load that embedded the font into the document of an
\* export that has since finished.
LoadedLoader ==
  [UnbornLoader EXCEPT !.pc = "resolved", !.doc = 1, !.primary = "ok",
                       !.primaryRequests = 1, !.embedded = TRUE]

\* A list with one entry on each date.
NamingStore(pg) == [i \in 1..MaxDate |-> PageEntry(pg, i, i)]

\* The page after a fetch and a first export that loaded the font, with the
\* date inputs, the Filter and Clear buttons, the exports and the clock.
NamingInit ==
  \E pg \in Pages : \E st \in {NamingStore(pg)} :
    /\ page = pg
    /\ store = st
    /\ entries = st
    /\ filteredEntries = st
    /\ isLoading = FALSE
    /\ dateFilter = [fromDate |-> NoDate, toDate |-> NoDate]
    /\ getAllPending = 0
    /\ lastFetch = st
    /\ fontCache = [loaded |-> TRUE, promise |-> 1]
    /\ loaders = [id \in PromiseIds |-> IF id = 1 THEN LoadedLoader ELSE UnbornLoader]
    /\ runs = [r \in 1..MaxRuns |-> IdleRun]
    /\ last = Did("fetchEntries")
    /\ today = 1
    /\ isSaving = FALSE
    /\ selectedEntry = <<>>
    /\ mutations = [m \in 1..MaxMutations |-> IdleMutation]
    /\ responses = <<>>
    /\ appliedFilter = <<>>

NamingNext ==
  \/ FilterNext
  \/ \E t \in BOOLEAN : handleDownloadPDF_Special(t)
  \/ SaudiExportNext({1})
  \/ tick

SpecNaming == NamingInit /\ [][NamingNext]_vars

\* C14: a saved file is named <ReportKind>_Hisaab_Kitaab_<from or 'all'>_
\* <to or 'all'>_<ISO date of the day of the save>.pdf, and two consecutive
\* saves with the same bounds on the same day have the same name.
C14_Part(d) ==
  CASE d = NoDate -> "all"
    [] d \in 1..9 -> "2024-01-0" \o ToString(d)
    [] OTHER -> "2024-01-" \o ToString(d)

C14_Name(kind, from, to, day) ==
  kind \o "_Hisaab_Kitaab_" \o C14_Part(from) \o "_" \o C14_Part(to) \o "_" \o
  C14_Part(day) \o ".pdf"

C14_FileName ==
  [][/\ (last'.saved /\ last' # last) =>
          /\ last'.day = today
          /\ last'.fileName = C14_Name(page, last'.fromDate, last'.toDate, today)
     /\ (last.saved /\ last'.saved /\ last'.fromDate = last.fromDate
          /\ last'.toDate = last.toDate /\ last'.day = last.day) =>
          last'.fileName = last.fileName]_vars

\* Files saved with one bound unset, on the second day.
C14_Witness ==
  /\ last.saved
  /\ last.fromDate # NoDate
  /\ last.toDate = NoDate
  /\ last.day = 2
  /\ last.fileName = FilePrefix(page) \o "2024-01-0" \o ToString(last.fromDate) \o "_all_2024-01-02.pdf"

\* C15: the date-range line of a saved report is 'All Entries' exactly when
\* no bound is set, and shows the range whenever a bound is set.
C15_RangeShownWheneverBounded ==
  last.saved =>
    (last.dateRange = "All Entries" <=> (last.fromDate = NoDate /\ last.toDate = NoDate))

\* A report filtered with a from bound only, saved with fewer rows than the
\* page has entries, and titled 'All Entries'.
C15_Witness ==
  /\ last.saved
  /\ last.fromDate # NoDate
  /\ last.toDate = NoDate
  /\ Len(last.data) < Len(entries)
  /\ last.dateRange = "All Entries"

\* ------------------------------------------------------------ cell fonts
\* Texts are sequences of UTF-16 code units.
Dash == <<45>>
TotalsLabel == <<84, 79, 84, 65, 76, 83>>
EmptyText == <<>>
PKR == <<32, 80, 75, 82>>
SAR == <<32, 83, 65, 82>>

\* The sample texts of refNo and reference2: absent or empty, Latin, Arabic
\* script, and Latin followed by Arabic script.
SampleTexts == {<<>>, <<65>>, <<1575>>, <<65, 1575>>}

\* The regex with its first block only.
isUrduCodeUnit_firstBlock(c) == c \in 1536..1791

\* containsUrdu: a code unit of the Arabic blocks listed in the regex.
isUrduCodeUnit(c) ==
  \/ c \in 1536..1791
  \/ c \in 1872..1919
  \/ c \in 2208..2303
  \/ c \in 64336..65023
  \/ c \in 65136..65279

containsUrdu(text) ==
  IF text = <<>> THEN FALSE
  ELSE \E i \in DOMAIN text : isUrduCodeUnit(text[i])

\* value || '-'
OrDash(text) == IF text = <<>> THEN Dash ELSE text

\* The text of a numeric cell: an optional minus sign and decimal digits
\* (grouping separators and the decimal point, ASCII as well, are left out).
RECURSIVE DigitsOf(_)
DigitsOf(n) == IF n < 10 THEN <<48 + n>> ELSE Append(DigitsOf(n \div 10), 48 + (n % 10))

NumberText(n) == IF n < 0 THEN <<45>> \o DigitsOf(0 - n) ELSE DigitsOf(n)

\* The text of a date cell: the entry's date string, yyyy-mm-dd.
DateText(d) == <<50, 48, 50, 52, 45, 48, 49, 45>> \o (IF d < 10 THEN <<48>> ELSE <<>>) \o DigitsOf(d)

\* The eight cell texts of an entry row of the Saudi report, by column index.
SaudiCellTexts(entry) ==
  [c \in 0..7 |->
     CASE c = 0 -> DateText(entry.date)
       [] c = 1 -> OrDash(entry.refNo)
       [] c = 2 -> NumberText(SaudiRow(entry).pkr) \o PKR
       [] c = 3 -> NumberText(SaudiRow(entry).riyal) \o SAR
       [] c = 4 -> NumberText(SaudiRow(entry).submitted) \o SAR
       [] c = 5 -> OrDash(entry.reference2)
       [] c = 6 -> NumberText(SaudiRow(entry).balance) \o SAR
       [] c = 7 -> NumberText(entry.riyalRate)]

\* The cell texts of the TOTALS row.
SaudiTotalsTexts(data) ==
  [c \in 0..7 |->
     CASE c = 1 -> TotalsLabel
       [] c = 2 -> NumberText(SaudiTotals(data).pkr) \o PKR
       [] c = 3 -> NumberText(SaudiTotals(data).riyal) \o SAR
       [] c = 4 -> NumberText(SaudiTotals(data).submitted) \o SAR
       [] c = 6 -> NumberText(SaudiTotals(data).balance) \o SAR
       [] OTHER -> EmptyText]

\* body: tableData of the Saudi report as cell texts.
SaudiBodyTexts(data) ==
  Append([i \in 1..Len(data) |-> SaudiCellTexts(data[i])], SaudiTotalsTexts(data))

\* columnStyles: the font a body cell has before didParseCell runs.
ColumnStyleFont(col) == IF col \in {0, 5} THEN FontName ELSE "helvetica"

\* didParseCell: the font of the cell after the hook, `font` being the one
\* it had before. When neither branch is taken the font is left as it was.
didParseCell(col, cellText, hasUrduFont, font) ==
  LET isUrduText == containsUrdu(cellText)
      isUrduColumn == col \in {0, 5}
      isNumericColumn == col \in {2, 3, 4, 6, 7}
  IN IF isNumericColumn \/ (~isUrduText /\ ~isUrduColumn) THEN "helvetica"
     ELSE IF hasUrduFont /\ (isUrduText \/ isUrduColumn)
       THEN (IF hasUrduFont THEN FontName ELSE "helvetica")
       ELSE font

\* The font of body cell (row, col) of a Saudi report built from `data` with
\* the Urdu font in the document's font list or not.
CellFont(data, hasUrduFont, row, col) ==
  didParseCell(col, SaudiBodyTexts(data)[row][col], hasUrduFont, ColumnStyleFont(col))

\* Saudi entries whose refNo and reference2 vary over the sample texts.
CellEntries ==
  {SaudiEntry(0, 1, 6, 2, 1, <<>>, <<>>) @@ [refNo |-> t, reference2 |-> u] :
     t \in SampleTexts, u \in SampleTexts}

CellStores == UNION {[1..n -> CellEntries] : n \in 1..MaxRows}

\* The Saudi page right after a fetch that brought a list with such texts.
CellsInit ==
  \E st \in CellStores :
    /\ page = "Saudi"
    /\ store = st
    /\ entries = st
    /\ filteredEntries = st
    /\ isLoading = FALSE
    /\ dateFilter = [fromDate |-> NoDate, toDate |-> NoDate]
    /\ getAllPending = 0
    /\ lastFetch = st
    /\ fontCache = [loaded |-> FALSE, promise |-> 0]
    /\ loaders = [id \in PromiseIds |-> UnbornLoader]
    /\ runs = [r \in 1..MaxRuns |-> IdleRun]
    /\ last = Did("fetchEntries")
    /\ today = 1
    /\ isSaving = FALSE
    /\ selectedEntry = <<>>
    /\ mutations = [m \in 1..MaxMutations |-> IdleMutation]
    /\ responses = <<>>
    /\ appliedFilter = <<>>

CellsNext ==
  \/ SaudiExportNext({1})
  \/ FontNext

SpecCells == CellsInit /\ [][CellsNext]_vars

\* C13: in a saved Saudi report every body cell of a numeric column has the
\* default font, a text cell has the right-to-left font only if the font is
\* ready and (its text has right-to-left characters or its column is 0 or 5),
\* and every other cell, flagged columns without the font included, has the
\* default font.
C13_CellFontRule ==
  (page = "Saudi" /\ last.saved) =>
    \A row \in 1..(Len(last.data) + 1), col \in 0..7 :
      CellFont(last.data, last.fontReady, row, col) =
        IF col \in {2, 3, 4, 6, 7} THEN "helvetica"
        ELSE IF last.fontReady /\
                (containsUrdu(SaudiBodyTexts(last.data)[row][col]) \/ col \in {0, 5})
          THEN FontName
          ELSE "helvetica"

\* A report saved without the font whose date cell has the right-to-left font.
C13_Witness ==
  /\ page = "Saudi"
  /\ last.saved
  /\ ~last.fontReady
  /\ CellFont(last.data, last.fontReady, 1, 0) = FontName

ServerMessage == "Entry not found"
MutationOutcomes == {"ok", "failMsg", "failNoMsg"}

\* ---- form fields
\* A number is a decimal numeral: num / 10^scale. A parse result is <<>> for
\* NaN or <<number>>.
NaN == <<>>

RECURSIVE Pow10(_)
Pow10(k) == IF k = 0 THEN 1 ELSE 10 * Pow10(k - 1)

isDigit(c) == c \in 48..57

\* StrWhiteSpaceChar of ECMAScript within the Basic Latin and Latin-1 blocks.
isWhiteSpace(c) == c \in {9, 10, 11, 12, 13, 32, 160}

\* The index after the run of digits that starts at index i of text t.
RECURSIVE DigitsEnd(_, _)
DigitsEnd(t, i) == IF i <= Len(t) /\ isDigit(t[i]) THEN DigitsEnd(t, i + 1) ELSE i

\* The value of the digits t[i], ..., t[j - 1]; 0 when there are none.
RECURSIVE DigitsValue(_, _, _)
DigitsValue(t, i, j) ==
  IF j <= i THEN 0 ELSE 10 * DigitsValue(t, i, j - 1) + (t[j - 1] - 48)

\* The index of the first code unit of t at or after i that is not white space.
RECURSIVE SkipWhiteSpace(_, _)
SkipWhiteSpace(t, i) ==
  IF i <= Len(t) /\ isWhiteSpace(t[i]) THEN SkipWhiteSpace(t, i + 1) ELSE i

\* String.prototype.trim.
RECURSIVE trimEnd(_)
trimEnd(t) ==
  IF t # <<>> /\ isWhiteSpace(t[Len(t)]) THEN trimEnd(SubSeq(t, 1, Len(t) - 1)) ELSE t

trim(t) == trimEnd(SubSeq(t, SkipWhiteSpace(t, 1), Len(t)))

\* The exponent part that starts at index i of t, if there is one: e or E, an
\* optional sign and at least one digit. `end` is the index after it.
ExponentAt(t, i) ==
  LET s == IF i + 1 <= Len(t) /\ t[i + 1] \in {43, 45} THEN i + 2 ELSE i + 1
      e == DigitsEnd(t, s)
  IN IF i <= Len(t) /\ t[i] \in {69, 101} /\ e > s
       THEN [end |-> e,
             value |-> IF t[i + 1] = 45 THEN 0 - DigitsValue(t, s, e) ELSE DigitsValue(t, s, e)]
       ELSE [end |-> i, value |-> 0]

\* The longest decimal literal at index a of t: an optional sign (only '-'
\* when plusToo is false), digits, an optional point with its digits, an
\* optional exponent. `end` is the index after the literal and a when there
\* is none; bare is TRUE when the point is not followed by a digit.
DecimalAt(t, a, plusToo) ==
  LET signs == IF plusToo THEN {43, 45} ELSE {45}
      neg == a <= Len(t) /\ t[a] = 45
      b == IF a <= Len(t) /\ t[a] \in signs THEN a + 1 ELSE a
      c == DigitsEnd(t, b)
      hasDot == c <= Len(t) /\ t[c] = 46
      d == IF hasDot THEN DigitsEnd(t, c + 1) ELSE c
      intDigits == c - b
      fracDigits == IF hasDot THEN d - (c + 1) ELSE 0
      mantissaEnd == IF hasDot /\ intDigits + fracDigits > 0 THEN d ELSE c
      ex == ExponentAt(t, mantissaEnd)
      mantissa == DigitsValue(t, b, c) * Pow10(fracDigits) +
                  (IF hasDot THEN DigitsValue(t, c + 1, d) ELSE 0)
      signed == IF neg THEN 0 - mantissa ELSE mantissa
      scale == fracDigits - ex.value
  IN [found |-> intDigits + fracDigits > 0,
      end |-> IF intDigits + fracDigits > 0 THEN ex.end ELSE a,
      bare |-> hasDot /\ fracDigits = 0,
      number |-> IF scale < 0 THEN [num |-> signed * Pow10(0 - scale), scale |-> 0]
                 ELSE [num |-> signed, scale |-> scale]]

\* parseFloat: leading white space is skipped, the longest prefix that is a
\* decimal literal is read and the rest of the text is ignored; NaN when no
\* such prefix exists (the Infinity literal is left out).
parseFloat(t) ==
  LET lit == DecimalAt(t, SkipWhiteSpace(t, 1), TRUE)
  IN IF lit.found THEN <<lit.number>> ELSE NaN

\* x <= 0, x < 0, x > 0 of a parse result: every comparison with NaN is false.
LessOrEqualZero(p) == p # NaN /\ p[1].num <= 0
LessThanZero(p) == p # NaN /\ p[1].num < 0
GreaterThanZero(p) == p # NaN /\ p[1].num > 0

\* An <input type="text">, or a number input read as typed: the value is the
\* text typed.
NumberInput_asTyped(t) == t

\* e.target.value of an <input type="number">: the text typed when all of it
\* is a valid floating-point number (no '+', no white space, digits on both
\* sides of a point), otherwise the empty string.
NumberInput(t) ==
  LET lit == DecimalAt(t, 1, FALSE)
  IN IF lit.found /\ lit.end = Len(t) + 1 /\ ~lit.bare THEN t ELSE <<>>

\* The fixed text of each catch.
GenericNotice(op) ==
  CASE op = "create" -> "Failed to create entry. Please try again."
    [] op = "update" -> "Failed to update entry. Please try again."
    [] op = "delete" -> "Failed to delete entry. Please try again."

\* The alert of the catch of each handler: handleSave and handleDelete show
\* error?.message || generic, handleAddEntry shows its generic text only.
ErrorNotice(op, outcome) ==
  IF op = "create" THEN GenericNotice(op)
  ELSE IF outcome = "failMsg" THEN ServerMessage ELSE GenericNotice(op)

\* The add form as typed: `date` is NoDate for an empty date input; the other
\* fields are the texts typed into their inputs.
\* Sample texts: "09:30"; " " and "A"; "0" and "6"; "", "2", "-2" and "a";
\* "1" and "-1"; "", "0", "1", "-1" and "a"; the texts of the rate input of
\* the edit form add "0", "2a" and ".5".
TimeText == <<48, 57, 58, 51, 48>>
NameTexts == {<<32>>, <<65>>}
AmountTexts == {<<48>>, <<54>>}
RateTexts == {<<>>, <<50>>, <<45, 50>>, <<97>>}
SubmittedTexts == {<<49>>, <<45, 49>>}
RupeesTexts == {<<>>, <<48>>, <<49>>, <<45, 49>>, <<97>>}
EditRateTexts == RateTexts \cup {<<48>>, <<50, 97>>, <<46, 53>>}

\* The forms typed: every combination of the date, time and name fields
\* beside valid amounts, and every combination of the sample amounts beside
\* date, time and name all filled in or all missing.
TypedAddForms(pg) ==
  IF pg = "Saudi"
    THEN [date : {NoDate, 1}, time : {<<>>, TimeText}, refNo : NameTexts,
          pkrAmount : {<<54>>}, riyalRate : {<<50>>}, submittedSar : {<<49>>}] \cup
         [date : {1}, time : {TimeText}, refNo : {<<65>>},
          pkrAmount : AmountTexts, riyalRate : RateTexts, submittedSar : SubmittedTexts] \cup
         [date : {NoDate}, time : {<<>>}, refNo : {<<32>>},
          pkrAmount : AmountTexts, riyalRate : RateTexts, submittedSar : SubmittedTexts]
    ELSE [userName : NameTexts, date : {NoDate, 1},
          nameRupees : {<<54>>}, submittedRupees : {<<49>>}] \cup
         [userName : {<<65>>}, date : {1},
          nameRupees : AmountTexts \cup {<<97>>}, submittedRupees : RupeesTexts] \cup
         [userName : {<<32>>}, date : {NoDate},
          nameRupees : AmountTexts \cup {<<97>>}, submittedRupees : RupeesTexts]

\* The add forms of a user who fills in every field and types whole amounts,
\* "0" (which fails validation) or "6".
PlainAddForms(pg) ==
  IF pg = "Saudi"
    THEN [date : {1}, time : {TimeText}, refNo : {<<65>>},
          pkrAmount : {<<48>>, <<54>>}, riyalRate : {<<50>>}, submittedSar : {<<49>>}]
    ELSE [userName : {<<65>>}, date : {1},
          nameRupees : {<<48>>, <<54>>}, submittedRupees : {<<50>>}]

\* The edit form as typed: handleEdit fills it from the entry and the user
\* overwrites its number inputs; the texts of its other inputs are not modelled.
TypedEditForms(pg) ==
  IF pg = "Saudi"
    THEN [pkrAmount : {<<49, 50>>}, riyalRate : EditRateTexts, submittedSar : {<<49>>}]
    ELSE [nameRupees : {<<49, 50>>}, submittedRupees : EditRateTexts]

PlainEditForms(pg) ==
  IF pg = "Saudi"
    THEN [pkrAmount : {<<49, 50>>}, riyalRate : {<<50>>}, submittedSar : {<<49>>}]
    ELSE [nameRupees : {<<49, 50>>}, submittedRupees : {<<50>>}]

\* addFormData / formData after the onChange handlers stored e.target.value
\* of each input: the number inputs hand over the sanitised text.
AddFormData(pg, typed) ==
  IF pg = "Saudi"
    THEN [typed EXCEPT !.pkrAmount = NumberInput(typed.pkrAmount),
                       !.riyalRate = NumberInput(typed.riyalRate),
                       !.submittedSar = NumberInput(typed.submittedSar)]
    ELSE [typed EXCEPT !.nameRupees = NumberInput(typed.nameRupees),
                       !.submittedRupees = NumberInput(typed.submittedRupees)]

FormData(pg, typed) ==
  IF pg = "Saudi"
    THEN [pkrAmount |-> NumberInput(typed.pkrAmount),
          riyalRate |-> NumberInput(typed.riyalRate),
          submittedSar |-> NumberInput(typed.submittedSar)]
    ELSE [nameRupees |-> NumberInput(typed.nameRupees),
          submittedRupees |-> NumberInput(typed.submittedRupees)]

\* validateAddForm: the keys of the errors object it builds and hands to
\* setAddFormErrors; it returns true when there are none.
validateAddForm(pg, form) ==
  IF pg = "Saudi"
    THEN (IF form.date = NoDate THEN {"date"} ELSE {}) \cup
         (IF form.time = <<>> THEN {"time"} ELSE {}) \cup
         (IF trim(form.refNo) = <<>> THEN {"refNo"} ELSE {}) \cup
         (IF form.pkrAmount = <<>> \/ LessOrEqualZero(parseFloat(form.pkrAmount))
            THEN {"pkrAmount"} ELSE {}) \cup
         (IF form.riyalRate = <<>> \/ LessOrEqualZero(parseFloat(form.riyalRate))
            THEN {"riyalRate"} ELSE {}) \cup
         (IF form.submittedSar = <<>> \/ LessThanZero(parseFloat(form.submittedSar))
            THEN {"submittedSar"} ELSE {})
    ELSE (IF trim(form.userName) = <<>> THEN {"userName"} ELSE {}) \cup
         (IF form.date = NoDate THEN {"date"} ELSE {}) \cup
         (IF form.nameRupees = <<>> \/ LessOrEqualZero(parseFloat(form.nameRupees))
            THEN {"nameRupees"} ELSE {}) \cup
         (IF form.submittedRupees = <<>> \/ LessThanZero(parseFloat(form.submittedRupees))
            THEN {"submittedRupees"} ELSE {})

\* The numeric fields of the body of a create or update request: parseFloat
\* of the form's texts.
Payload(pg, form) ==
  IF pg = "Saudi"
    THEN [pkrAmount |-> parseFloat(form.pkrAmount),
          riyalRate |-> parseFloat(form.riyalRate),
          submittedSar |-> parseFloat(form.submittedSar)]
    ELSE [nameRupees |-> parseFloat(form.nameRupees),
          submittedRupees |-> parseFloat(form.submittedRupees)]

\* fetchEntries() placed in finally: called after a failure too.
Refetches_always(outcome) == TRUE

\* The handlers without their fetchEntries() call.
Refetches_never(outcome) == FALSE

\* fetchEntries() is the last statement of the try, after the await.
Refetches(outcome) == outcome = "ok"

\* handleDelete without the confirm test.
DeleteProceeds_unasked(confirmed) == TRUE

\* if (!window.confirm(...)) return
DeleteProceeds(confirmed) == confirmed

\* The store behind saudiAPI / specialAPI carrying out a request.
\* A number with no fractional part, and its value.
Whole(p) == p # NaN /\ p[1].num % Pow10(p[1].scale) = 0
WholeValue(p) == p[1].num \div Pow10(p[1].scale)

\* The store keeps whole amounts: it accepts a body whose numbers are all
\* whole, and records its first amount (pkrAmount / nameRupees).
WholePayload(pg, payload) ==
  IF pg = "Saudi"
    THEN Whole(payload.pkrAmount) /\ Whole(payload.riyalRate) /\ Whole(payload.submittedSar)
    ELSE Whole(payload.nameRupees) /\ Whole(payload.submittedRupees)

Amount(pg, payload) ==
  IF pg = "Saudi" THEN WholeValue(payload.pkrAmount) ELSE WholeValue(payload.nameRupees)

NewEntry(pg, i, d, amount) ==
  IF pg = "Saudi" THEN SaudiEntry(i, d, amount, 2, 1, <<>>, <<>>)
                  ELSE SpecialEntry(i, d, amount, 2, <<>>)

UpdatedEntry(pg, e, amount) ==
  IF pg = "Saudi" THEN [e EXCEPT !.pkrAmount = amount]
                  ELSE [e EXCEPT !.nameRupees = amount]

HasId(list, i) == \E k \in DOMAIN list : list[k].id = i

\* The id the store gives a new entry: the lowest one not in use.
NewId(list) == CHOOSE i \in 1..(Len(list) + 1) :
                 ~HasId(list, i) /\ \A j \in 1..(Len(list) + 1) : ~HasId(list, j) => i <= j

KeepsOthers(e, i) == e.id # i

ApplyMutation(pg, st, req) ==
  CASE req.op = "create" -> Append(st, NewEntry(pg, NewId(st), req.date, Amount(pg, req.payload)))
    [] req.op = "update" ->
         [k \in DOMAIN st |-> IF st[k].id = req.id
                                THEN UpdatedEntry(pg, st[k], Amount(pg, req.payload))
                              ELSE st[k]]
    [] req.op = "delete" -> SelectSeq(st, LAMBDA e : KeepsOthers(e, req.id))

\* Whether the store can answer a request with success: the entry of an
\* update or delete exists, the store holds at most MaxEntries entries, and
\* the numbers of a create or update are whole.
CanSucceed(st, req) ==
  CASE req.op = "create" -> Len(st) < MaxEntries /\ WholePayload(page, req.payload)
    [] req.op = "update" -> HasId(st, req.id) /\ WholePayload(page, req.payload)
    [] req.op = "delete" -> HasId(st, req.id)

\* The requests in flight are kept in slots; a new request takes the lowest
\* free slot of `slots`, which bounds how many are in flight at a time.
FreeMutation(slots) == CHOOSE m \in slots : mutations[m].pc = "idle" /\
                         \A q \in slots : mutations[q].pc = "idle" => m <= q

\* setIsSaving(true) and the request of a handler, up to its await.
Send(slots, op, i, d, payload) ==
  /\ \E m \in slots : mutations[m].pc = "idle"
  /\ mutations' = [mutations EXCEPT ![FreeMutation(slots)] =
                     [pc |-> "sent", op |-> op, id |-> i, date |-> d, payload |-> payload]]
  /\ isSaving' = TRUE

\* handleEdit of a row of the table.
handleEdit(i) ==
  /\ i \in DOMAIN ShownEntries
  /\ selectedEntry' = <<ShownEntries[i]>>
  /\ last' = Did("handleEdit")
  /\ UNCHANGED <<today, responses, appliedFilter, isSaving, mutations, page, store, entries, filteredEntries,
                 isLoading, dateFilter, getAllPending, lastFetch, fontVars>>

\* handleSave up to await update(...); typed is what the user left in the
\* inputs of the edit form. Nothing is validated.
handleSave(typed, slots) ==
  /\ IF selectedEntry = <<>>
       THEN /\ last' = Did("handleSave")
            /\ UNCHANGED <<isSaving, mutations>>
       ELSE LET form == FormData(page, typed)
            IN /\ Send(slots, "update", selectedEntry[1].id, NoDate, Payload(page, form))
               /\ last' = [Did("handleSave") EXCEPT !.sent = TRUE, !.mop = "update",
                                                    !.typed = typed, !.form = form]
  /\ UNCHANGED <<today, responses, appliedFilter, selectedEntry, page, store, entries, filteredEntries,
                 isLoading, dateFilter, getAllPending, lastFetch, fontVars>>

\* handleDelete of a row up to await delete(...); confirmed is the answer to
\* window.confirm.
handleDelete(i, confirmed, slots) ==
  /\ i \in DOMAIN ShownEntries
  /\ IF ~DeleteProceeds(confirmed)
       THEN /\ last' = [Did("handleDelete") EXCEPT !.mop = "delete", !.confirmed = confirmed]
            /\ UNCHANGED <<isSaving, mutations>>
       ELSE /\ Send(slots, "delete", ShownEntries[i].id, NoDate, NoPayload)
            /\ last' = [Did("handleDelete") EXCEPT !.mop = "delete", !.sent = TRUE,
                                                   !.confirmed = confirmed]
  /\ UNCHANGED <<today, responses, appliedFilter, selectedEntry, page, store, entries, filteredEntries,
                 isLoading, dateFilter, getAllPending, lastFetch, fontVars>>

\* handleAddEntry up to await create(...); typed is what the user left in the
\* inputs of the add form. validateAddForm stores its errors object and, when
\* that has a key, handleAddEntry returns.
handleAddEntry(typed, slots) ==
  /\ LET form == AddFormData(page, typed)
         errors == validateAddForm(page, form)
     IN IF errors # {}
          THEN /\ last' = [Did("handleAddEntry") EXCEPT !.mop = "create", !.typed = typed,
                                                       !.form = form, !.errors = errors]
               /\ UNCHANGED <<isSaving, mutations>>
          ELSE /\ Send(slots, "create", 0, form.date, Payload(page, form))
               /\ last' = [Did("handleAddEntry") EXCEPT !.mop = "create", !.sent = TRUE,
                                                       !.typed = typed, !.form = form]
  /\ UNCHANGED <<today, responses, appliedFilter, selectedEntry, page, store, entries, filteredEntries,
                 isLoading, dateFilter, getAllPending, lastFetch, fontVars>>

\* A handler after its await: on success the modal state is reset (handleSave
\* clears selectedEntry) and fetchEntries() starts, which sets isLoading and
\* sends getAll; on failure the catch alerts; finally clears isSaving. At most
\* `fetches` getAll requests are in flight at a time.
mutationResponse(m, outcome, fetches) ==
  LET req == mutations[m]
  IN /\ req.pc = "sent"
     /\ outcome = "ok" => CanSucceed(store, req)
     /\ Refetches(outcome) => getAllPending < fetches
     /\ store' = IF outcome = "ok" THEN ApplyMutation(page, store, req) ELSE store
     /\ mutations' = [mutations EXCEPT ![m] = IdleMutation]
     /\ selectedEntry' = IF outcome = "ok" /\ req.op = "update" THEN <<>> ELSE selectedEntry
     /\ IF Refetches(outcome)
          THEN /\ getAllPending' = getAllPending + 1
               /\ isLoading' = TRUE
          ELSE UNCHANGED <<getAllPending, isLoading>>
     /\ isSaving' = FALSE
     /\ last' = [Did("mutationResponse") EXCEPT
                   !.mop = req.op, !.outcome = outcome,
                   !.alert = IF outcome = "ok" THEN "none" ELSE ErrorNotice(req.op, outcome)]
     /\ UNCHANGED <<today, responses, appliedFilter, page, entries, filteredEntries, dateFilter, lastFetch, fontVars>>

MutateNext(slots, fetches) ==
  \/ \E i \in 1..MaxEntries : handleEdit(i)
  \/ \E t \in PlainEditForms(page) : handleSave(t, slots)
  \/ \E i \in 1..MaxEntries, c \in BOOLEAN : handleDelete(i, c, slots)
  \/ \E t \in PlainAddForms(page) : handleAddEntry(t, slots)
  \/ \E m \in slots, o \in MutationOutcomes : mutationResponse(m, o, fetches)

\* Stores whose entries all have the first date.
MutateStores(pg) == {[i \in 1..n |-> PageEntry(pg, i, 1)] : n \in 0..MaxEntries}

MutateInit == \E pg \in Pages : \E st \in MutateStores(pg) : InitWith(pg, st)

\* The page with its fetches and its create, update and delete handlers, one
\* mutation and one getAll in flight at a time.
MutateSpecNext ==
  \/ FetchNext
  \/ MutateNext({1}, 1)

SpecMutate == MutateInit /\ [][MutateSpecNext]_vars

\* A step in which a request slot is answered with a failure.
FailedResponse ==
  /\ last'.op = "mutationResponse"
  /\ last'.outcome # "ok"
  /\ \E m \in 1..MaxMutations : mutations[m].pc = "sent" /\ mutations'[m].pc = "idle"

\* C18: when a create, update or delete request fails, entries and
\* filteredEntries stay as they were, no getAll is sent, and of the page
\* state only isSaving changes, to false.
C18_FailureLeavesLists ==
  [][FailedResponse =>
       /\ entries' = entries
       /\ filteredEntries' = filteredEntries
       /\ getAllPending' = getAllPending
       /\ isSaving' = FALSE
       /\ UNCHANGED <<store, isLoading, dateFilter, selectedEntry, lastFetch>>]_vars

\* A failed request answered on a page that shows entries, nothing in flight.
C18_Witness ==
  /\ last.op = "mutationResponse"
  /\ last.outcome # "ok"
  /\ entries # <<>>
  /\ ~isSaving
  /\ getAllPending = 0

\* C19: a failed create, update or delete shows the message of the error
\* when it carries one and the generic message of the operation otherwise.
C19_ServerMessageShown ==
  (last.op = "mutationResponse" /\ last.outcome # "ok") =>
    last.alert = IF last.outcome = "failMsg" THEN ServerMessage
                 ELSE CASE last.mop = "create" -> "Failed to create entry. Please try again."
                        [] last.mop = "update" -> "Failed to update entry. Please try again."
                        [] last.mop = "delete" -> "Failed to delete entry. Please try again."

\* A failed create whose error carried a message, answered with the generic
\* text.
C19_Witness ==
  /\ last.op = "mutationResponse"
  /\ last.mop = "create"
  /\ last.outcome = "failMsg"
  /\ last.alert = "Failed to create entry. Please try again."

\* A step in which a delete request is put in flight.
DeleteSent ==
  \E m \in 1..MaxMutations :
    /\ mutations'[m] # mutations[m]
    /\ mutations'[m].pc = "sent"
    /\ mutations'[m].op = "delete"

\* C20: a delete request is sent only by a handleDelete whose confirmation
\* was accepted; a declined handleDelete sends nothing, leaves isSaving as it
\* was and leaves entries and filteredEntries unchanged.
C20_DeleteNeedsConfirm ==
  [][/\ DeleteSent => (last'.op = "handleDelete" /\ last'.confirmed)
     /\ (last'.op = "handleDelete" /\ ~last'.confirmed) =>
          UNCHANGED <<mutations, isSaving, entries, filteredEntries, store, getAllPending>>]_vars

\* A declined delete on a page that shows entries, with nothing in flight.
C20_Witness ==
  /\ last.op = "handleDelete"
  /\ ~last.confirmed
  /\ ~last.sent
  /\ entries # <<>>
  /\ ~isSaving
  /\ \A m \in 1..MaxMutations : mutations[m].pc = "idle"

\* A step in which a request slot is answered with success.
SucceededResponse ==
  /\ last'.op = "mutationResponse"
  /\ last'.outcome = "ok"
  /\ \E m \in 1..MaxMutations : mutations[m].pc = "sent" /\ mutations'[m].pc = "idle"

\* A step that ends a fetchEntries call.
FetchEnds ==
  /\ getAllPending' = getAllPending - 1
  /\ last'.op \in {"fetchEntries", "fetchEntriesFailed"}

\* C21: a successful create, update or delete sends exactly one getAll in the
\* step of its response, and entries and filteredEntries are only ever
\* replaced by the whole list a fetch brought, or by the empty list when the
\* fetch failed; no mutation handler writes them.
C21_RefetchAfterSuccess ==
  [][/\ SucceededResponse => getAllPending' = getAllPending + 1
     /\ ~SucceededResponse => getAllPending' <= getAllPending
     /\ (entries' # entries \/ filteredEntries' # filteredEntries) =>
          /\ FetchEnds
          /\ \/ last'.op = "fetchEntries" /\ entries' = store /\ filteredEntries' = store
             \/ last'.op = "fetchEntriesFailed" /\ entries' = <<>> /\ filteredEntries' = <<>>]_vars

\* The response of a successful delete has sent the re-fetch while the page
\* still shows the list with the deleted entry.
C21_Witness ==
  /\ last.op = "mutationResponse"
  /\ last.mop = "delete"
  /\ last.outcome = "ok"
  /\ getAllPending = 1
  /\ Len(entries) = Len(store) + 1

\* C22: when getAll fails, entries and filteredEntries become the empty
\* list, isLoading becomes false, and nothing leaves fetchEntries.
C22_FetchFailureEmpties ==
  [][(FetchEnds /\ last'.op = "fetchEntriesFailed") =>
       /\ entries' = <<>>
       /\ filteredEntries' = <<>>
       /\ isLoading' = FALSE
       /\ ~last'.escaped]_vars

\* A failed re-fetch has emptied the page although the store holds entries.
C22_Witness ==
  /\ last.op = "fetchEntriesFailed"
  /\ entries = <<>>
  /\ filteredEntries = <<>>
  /\ ~isLoading
  /\ store # <<>>
  /\ getAllPending = 0

\* ------------------------------------------------------------ containsUrdu
\* Code units at and next to the ends of the five blocks, a Latin letter and
\* a Hebrew letter.
UrduSampleUnits ==
  {65, 1488,
   1535, 1536, 1791, 1792,
   1871, 1872, 1919, 1920,
   2207, 2208, 2303, 2304,
   64335, 64336, 65023, 65024,
   65135, 65136, 65279, 65280}

\* Every text of at most MaxLen sample code units, the empty string included.
UrduTexts == UNION {[1..n -> UrduSampleUnits] : n \in 0..MaxLen}

\* A caller holding a text.
UrduInit ==
  \E t \in UrduTexts :
    /\ page = "Saudi"
    /\ store = <<>>
    /\ entries = <<>>
    /\ filteredEntries = <<>>
    /\ isLoading = TRUE
    /\ dateFilter = [fromDate |-> NoDate, toDate |-> NoDate]
    /\ getAllPending = 1
    /\ lastFetch = <<>>
    /\ fontCache = [loaded |-> FALSE, promise |-> 0]
    /\ loaders = [id \in PromiseIds |-> UnbornLoader]
    /\ runs = [r \in 1..MaxRuns |-> IdleRun]
    /\ last = [Did("mount") EXCEPT !.text = t]
    /\ today = 1
    /\ isSaving = FALSE
    /\ selectedEntry = <<>>
    /\ mutations = [m \in 1..MaxMutations |-> IdleMutation]
    /\ responses = <<>>
    /\ appliedFilter = <<>>

\* The call containsUrdu(text) on the text held.
containsUrduCall ==
  /\ last.op = "mount"
  /\ last' = [Did("containsUrdu") EXCEPT !.text = last.text,
                                         !.result = containsUrdu(last.text)]
  /\ UNCHANGED <<today, responses, appliedFilter, mutationVars, page, store, entries, filteredEntries, isLoading,
                 dateFilter, getAllPending, lastFetch, fontVars>>

SpecUrdu == UrduInit /\ [][containsUrduCall]_vars

\* C24: containsUrdu(text) is true exactly when text has a code unit in
\* U+0600-06FF, U+0750-077F, U+08A0-08FF, U+FB50-FDFF or U+FE70-FEFF; it is
\* false for the empty string and for text wholly outside these blocks.
C24_InBlocks(c) ==
  \/ (6 * 256 <= c /\ c <= 6 * 256 + 255)
  \/ (7 * 256 + 80 <= c /\ c <= 7 * 256 + 127)
  \/ (8 * 256 + 160 <= c /\ c <= 8 * 256 + 255)
  \/ (251 * 256 + 80 <= c /\ c <= 253 * 256 + 255)
  \/ (254 * 256 + 112 <= c /\ c <= 254 * 256 + 255)

C24_ContainsUrduExact ==
  last.op = "containsUrdu" =>
    /\ last.result <=> \E i \in 1..Len(last.text) : C24_InBlocks(last.text[i])
    /\ last.text = <<>> => ~last.result

\* containsUrdu answered true for a Latin letter followed by the last code
\* unit of the last block.
C24_Witness ==
  /\ last.op = "containsUrdu"
  /\ last.text = <<65, 65279>>
  /\ last.result

\* C25: a Saudi export that finds fontCache.loaded true after its await has
\* NotoSansArabic in the font list of its own document, whether it started
\* the fetch, joined the load in flight or started after the load.
C25_LoadedMeansRegistered ==
  (last.op = "handleDownloadPDF_resume" /\ last.cacheLoaded) => last.fontReady

\* An export went on with the cache loaded and a document without the font.
C25_Witness ==
  /\ last.op = "handleDownloadPDF_resume"
  /\ last.cacheLoaded
  /\ ~last.fontReady
  /\ last.saved


\* ------------------------------------------------------------ overlapping requests
\* The store reading its contents for one getAll request that it has not read
\* for yet; the response then travels back to the page.
getAllServe ==
  /\ Len(responses) < getAllPending
  /\ responses' = Append(responses, store)
  /\ last' = Did("getAllServe")
  /\ UNCHANGED <<today, appliedFilter, mutationVars, page, store, entries, filteredEntries,
                 isLoading, dateFilter, getAllPending, lastFetch, fontVars>>

\* The list fetchEntries installs once its await has returned data.
Installed(rs, k) == rs[k]

\* fetchEntries after its await, for the k-th response under way: responses
\* of overlapping requests arrive in any order, and each is installed as it
\* arrives: setEntries(data), setFilteredEntries(data), setIsLoading(false).
fetchEntriesDeliver(k) ==
  /\ k \in DOMAIN responses
  /\ entries' = Installed(responses, k)
  /\ filteredEntries' = Installed(responses, k)
  /\ lastFetch' = Installed(responses, k)
  /\ responses' = [j \in 1..(Len(responses) - 1) |->
                     IF j < k THEN responses[j] ELSE responses[j + 1]]
  /\ getAllPending' = getAllPending - 1
  /\ isLoading' = FALSE
  /\ last' = Did("fetchEntries")
  /\ UNCHANGED <<today, appliedFilter, mutationVars, page, store, dateFilter, fontVars>>

\* The page with its row Delete buttons, which isSaving does not disable: two
\* deletes and two getAll requests can be in flight together. Every request
\* is answered with success.
OverlapNext ==
  \/ getAllServe
  \/ \E k \in 1..2 : fetchEntriesDeliver(k)
  \/ \E i \in 1..MaxEntries, c \in BOOLEAN : handleDelete(i, c, 1..2)
  \/ \E m \in 1..2 : mutationResponse(m, "ok", 2)

SpecOverlap == MutateInit /\ [][OverlapNext]_vars

\* No create, update, delete or getAll request is in flight.
Quiescent ==
  /\ getAllPending = 0
  /\ \A m \in 1..MaxMutations : mutations[m].pc = "idle"

\* C26: once every mutation and every re-fetch has completed successfully and
\* no request is in flight, the local entries list equals the store's
\* contents, whatever the order in which overlapping getAll responses arrived.
C26_QuiescentListIsStore == Quiescent => entries = store

\* Two deletes overlapped, their re-fetches were answered out of order, and
\* the page is left showing an entry the store no longer holds.
C26_Witness ==
  /\ Quiescent
  /\ last.op = "fetchEntries"
  /\ Len(entries) > Len(store)

\* C27: isSaving is true in every state in which at least one create, update
\* or delete request is in flight, also when mutations overlap.
C27_SavingWhileInFlight ==
  (\E m \in 1..MaxMutations : mutations[m].pc = "sent") => isSaving

\* The response of the first of two overlapping deletes has cleared isSaving
\* while the second delete is still in flight.
C27_Witness ==
  /\ last.op = "mutationResponse"
  /\ last.mop = "delete"
  /\ ~isSaving
  /\ \E m \in 1..MaxMutations : mutations[m].pc = "sent" /\ mutations[m].op = "delete"

\* ------------------------------------------------------------ filter and re-fetch
\* The page from its mount on a store with one entry per date, with its date
\* filter, its fetches and its row Delete buttons, one delete and one getAll
\* in flight at a time.
RefreshInit == \E pg \in Pages : InitWith(pg, NamingStore(pg))

RefreshNext ==
  \/ FilterNext
  \/ FetchNext
  \/ \E i \in 1..MaxEntries, c \in BOOLEAN : handleDelete(i, c, {1})
  \/ \E o \in MutationOutcomes : mutationResponse(1, o, 1)

SpecRefresh == RefreshInit /\ [][RefreshNext]_vars

\* C28: while date bounds applied with handleFilter remain set and unchanged,
\* filteredEntries equals the in-range subsequence of the current entries
\* list after any later operation, a re-fetch after a mutation included.
C28_FilterStaysApplied ==
  appliedFilter # <<>> => filteredEntries = InRangeList(entries, appliedFilter[1])

\* A re-fetch after a successful delete has put the whole list, an entry
\* outside the applied bounds included, into filteredEntries, while the date
\* inputs still hold the bounds applied with handleFilter.
C28_Witness ==
  /\ appliedFilter = <<dateFilter>>
  /\ last.op = "fetchEntries"
  /\ Len(store) < MaxDate
  /\ filteredEntries = store
  /\ filteredEntries # InRangeList(entries, dateFilter)

\* ------------------------------------------------------------ rows against the file name
\* C29: every entry row of an exported report has a date within the from / to
\* bounds written into the report's file name, a bound written as 'all' being
\* unbounded.
C29_RowsWithinNamedBounds ==
  last.saved =>
    \A i \in DOMAIN last.data :
      KeepEntry(last.data[i], [fromDate |-> last.fromDate, toDate |-> last.toDate])

\* A report was saved under a file name with a bound while holding a row dated
\* outside that bound.
C29_Witness ==
  /\ last.saved
  /\ last.fileName = FileName(page, [fromDate |-> last.fromDate, toDate |-> last.toDate],
                              last.day)
  /\ \/ last.fromDate # NoDate
     \/ last.toDate # NoDate
  /\ \E i \in DOMAIN last.data :
       \/ last.fromDate # NoDate /\ last.data[i].date < last.fromDate
       \/ last.toDate # NoDate /\ last.data[i].date > last.toDate

\* ------------------------------------------------------------ forms
\* The page on a store of one entry, with its add and edit modals, the user
\* typing any of the sample texts into their inputs; one mutation in flight
\* at a time, and the store answers every mutation with a failure.
FormsInit == \E pg \in Pages : InitWith(pg, <<PageEntry(pg, 1, 1)>>)

FormsNext ==
  \/ FetchNext
  \/ \E i \in 1..MaxEntries : handleEdit(i)
  \/ \E t \in TypedEditForms(page) : handleSave(t, {1})
  \/ \E t \in TypedAddForms(page) : handleAddEntry(t, {1})
  \/ \E o \in MutationOutcomes \ {"ok"} : mutationResponse(1, o, 1)

SpecForms == FormsInit /\ [][FormsNext]_vars

\* The required fields of the add form that are empty (blank, for the name),
\* hold a text that is not a number, or hold a number that fails its check.
C23_Positive(t) == parseFloat(t) # NaN /\ parseFloat(t)[1].num > 0
C23_NonNegative(t) == parseFloat(t) # NaN /\ parseFloat(t)[1].num >= 0

C23_Failing(pg, form) ==
  IF pg = "Saudi"
    THEN {f \in {"date"} : form.date = NoDate} \cup
         {f \in {"time"} : form.time = <<>>} \cup
         {f \in {"refNo"} : trim(form.refNo) = <<>>} \cup
         {f \in {"pkrAmount"} : ~C23_Positive(form.pkrAmount)} \cup
         {f \in {"riyalRate"} : ~C23_Positive(form.riyalRate)} \cup
         {f \in {"submittedSar"} : ~C23_NonNegative(form.submittedSar)}
    ELSE {f \in {"userName"} : trim(form.userName) = <<>>} \cup
         {f \in {"date"} : form.date = NoDate} \cup
         {f \in {"nameRupees"} : ~C23_Positive(form.nameRupees)} \cup
         {f \in {"submittedRupees"} : ~C23_NonNegative(form.submittedRupees)}

\* C23: handleAddEntry sends a create request only when every required field
\* is non-empty and the numeric fields satisfy their checks as numbers; for
\* any other form content no request is sent and the error map has an entry
\* for each failing field.
C23_AddValidated ==
  last.op = "handleAddEntry" =>
    /\ last.sent <=> C23_Failing(page, last.form) = {}
    /\ ~last.sent => last.errors = C23_Failing(page, last.form)
    /\ last.sent => \E m \in 1..MaxMutations :
                      /\ mutations[m].pc = "sent"
                      /\ mutations[m].op = "create"
                      /\ mutations[m].payload = Payload(page, last.form)

\* The user typed a text that is not a number into a numeric input of the add
\* form and filled in the rest; no request was sent and the field is in the
\* error map.
C23_Witness ==
  /\ last.op = "handleAddEntry"
  /\ ~last.sent
  /\ \/ /\ page = "Saudi"
        /\ last.typed.riyalRate = <<97>>
        /\ last.errors = {"riyalRate"}
     \/ /\ page = "Special"
        /\ last.typed.submittedRupees = <<97>>
        /\ last.errors = {"submittedRupees"}
  /\ \A m \in 1..MaxMutations : mutations[m].pc = "idle"

\* C30: every Saudi create or update request sent to the store carries a
\* riyalRate that is a number greater than 0, whichever form produced it.
C30_RatePositive ==
  page = "Saudi" =>
    \A m \in 1..MaxMutations :
      (mutations[m].pc = "sent" /\ mutations[m].op \in {"create", "update"}) =>
        GreaterThanZero(mutations[m].payload.riyalRate)

\* handleSave sent an update whose riyalRate is NaN: the rate input of the
\* edit modal was left empty.
C30_Witness ==
  /\ page = "Saudi"
  /\ last.op = "handleSave"
  /\ last.sent
  /\ last.form.riyalRate = <<>>
  /\ \E m \in 1..MaxMutations :
       /\ mutations[m].pc = "sent"
       /\ mutations[m].op = "update"
       /\ mutations[m].payload.riyalRate = NaN
==========================================================================
